---- MODULE Spec2Model ----
(***************************************************************************)
(* Model of the two deployment scripts.                                    *)
(*                                                                         *)
(*   deployment_on_aws_server.py: connect, transfer the build tree into    *)
(*   DEPLOY_PATH_temp, swap it into DEPLOY_PATH, restart the services.     *)
(*   Remote shell commands are dispatched with exec_command, which starts  *)
(*   the command and returns at once; nothing in the script waits for a    *)
(*   command to finish or reads its exit status. A dispatched command      *)
(*   therefore takes effect at some later moment, in no fixed order with   *)
(*   the commands dispatched after it (RemoteExec). sftp.put is            *)
(*   synchronous.                                                          *)
(*                                                                         *)
(*   deployment_pipeline_from_using_python_script.py: the clone-or-pull    *)
(*   orchestrator, with its name-prefix test for an existing working copy. *)
(***************************************************************************)
EXTENDS Integers, Sequences, FiniteSets, TLC

VARIABLES
    pc,         \* position of script 1's main()
    session,    \* "none" | "open" | "closed": the paramiko SSHClient connection
    sshBound,   \* whether main()'s local variable ssh has been assigned
    build,      \* the local build tree: set of [path, data] (files only)
    todo,       \* files os.walk has not yet yielded
    cur,        \* the file of the current loop iteration (a set of at most one)
    sent,       \* files for which sftp.put has returned
    remote,     \* the remote filesystem: set of [path, kind, data]
    remote0,    \* the remote filesystem before the run
    swapStart,  \* << the remote filesystem when switch_to_new_version was entered >>
    issued,     \* every command handed to exec_command, in issue order
    pending,    \* indices into issued of commands that have not yet taken effect
    failed,     \* indices of commands that ended with a non-zero exit status
    reordered,  \* whether a command has ended while one issued before it was pending
    returned,   \* stages that returned without raising
    raisedIn,   \* the stage whose exception reached main(), or "none"
    mainResult, \* "running" | "returned" | "raised": how main() ended
    cwd,        \* script 2: entries of the current working directory
    opc,        \* script 2: position of main()
    gitlog,     \* script 2: the repository operations performed, in order
    oresult     \* script 2: "running" | "returned" | "raised"

vars == << pc, session, sshBound, build, todo, cur, sent, remote, remote0,
           swapStart, issued, pending, failed, reordered, returned, raisedIn, mainResult,
           cwd, opc, gitlog, oresult >>

deployVars == << pc, session, sshBound, build, todo, cur, sent, remote, remote0,
                 swapStart, issued, pending, failed, reordered, returned, raisedIn,
                 mainResult >>

orchVars == << cwd, opc, gitlog, oresult >>

(***************************************************************************)
(* Bounds                                                                  *)
(***************************************************************************)
\* Largest number of files in the local build tree.
MaxFiles == 2

(***************************************************************************)
(* Paths. A path is a sequence of names; the three deployment directories  *)
(* are siblings, named by suffixing DEPLOY_PATH.                           *)
(***************************************************************************)
DEPLOY_PATH == << "deploy" >>

temp_dir == << "deploy_temp" >>

backup_dir == << "deploy_backup" >>

IsPrefix(p, q) == Len(p) <= Len(q) /\ SubSeq(q, 1, Len(p)) = p

Basename(p) == p[Len(p)]

Dirname(p) == SubSeq(p, 1, Len(p) - 1)

\* os.path.join(temp_dir, os.path.relpath(local_path, LOCAL_BUILD_PATH))
remote_path(rel) == temp_dir \o rel

(***************************************************************************)
(* The remote filesystem and the commands run on it.                       *)
(***************************************************************************)
Dir(p) == [path |-> p, kind |-> "dir", data |-> "-"]

File(p, d) == [path |-> p, kind |-> "file", data |-> d]

Exists(fs, p) == \E e \in fs : e.path = p

IsDir(fs, p) == \E e \in fs : e.path = p /\ e.kind = "dir"

IsFile(fs, p) == \E e \in fs : e.path = p /\ e.kind = "file"

Under(fs, p) == { e \in fs : IsPrefix(p, e.path) }

\* What a directory holds, with paths relative to it.
Contents(fs, p) ==
    { [e EXCEPT !.path = SubSeq(e.path, Len(p) + 1, Len(e.path))] :
        e \in { x \in Under(fs, p) : x.path # p } }

\* The files below a directory, as [path, data] with relative paths.
FilesUnder(fs, p) ==
    { [path |-> e.path, data |-> e.data] :
        e \in { x \in Contents(fs, p) : x.kind = "file" } }

Rename(fs, src, dst) ==
    ((fs \ Under(fs, src)) \ Under(fs, dst)) \cup
    { [e EXCEPT !.path = dst \o SubSeq(e.path, Len(src) + 1, Len(e.path))] :
        e \in Under(fs, src) }

\* mv src dst. A missing source fails; a missing destination is a rename; an
\* existing directory as destination receives the source inside it, which
\* fails when an entry of that name is there and is not an empty directory.
Mv(fs, src, dst) ==
    IF ~Exists(fs, src) THEN [ok |-> FALSE, fs |-> fs]
    ELSE IF ~Exists(fs, dst) THEN [ok |-> TRUE, fs |-> Rename(fs, src, dst)]
    ELSE IF IsDir(fs, dst) THEN
        LET target == Append(dst, Basename(src)) IN
        IF ~Exists(fs, target)
            THEN [ok |-> TRUE, fs |-> Rename(fs, src, target)]
        ELSE IF IsDir(fs, target) /\ IsDir(fs, src)
                 /\ Under(fs, target) = { Dir(target) }
            THEN [ok |-> TRUE, fs |-> Rename(fs, src, target)]
        ELSE IF IsFile(fs, target) /\ IsFile(fs, src)
            THEN [ok |-> TRUE, fs |-> Rename(fs, src, target)]
        ELSE [ok |-> FALSE, fs |-> fs]
    ELSE IF IsFile(fs, src) THEN [ok |-> TRUE, fs |-> Rename(fs, src, dst)]
    ELSE [ok |-> FALSE, fs |-> fs]

\* rm -rf p
RmRf(fs, p) == [ok |-> TRUE, fs |-> fs \ Under(fs, p)]

\* mkdir -p p
MkdirP(fs, p) ==
    IF \E k \in 1..Len(p) : IsFile(fs, SubSeq(p, 1, k))
        THEN [ok |-> FALSE, fs |-> fs]
        ELSE [ok |-> TRUE,
              fs |-> fs \cup { Dir(SubSeq(p, 1, k)) : k \in 1..Len(p) }]

\* sftp.put(local_path, remote_path): needs the parent directory, replaces a
\* file of the same name.
Put(fs, p, d) ==
    IF IsDir(fs, Dirname(p)) /\ ~IsDir(fs, p)
        THEN [ok |-> TRUE, fs |-> { e \in fs : e.path # p } \cup { File(p, d) }]
        ELSE [ok |-> FALSE, fs |-> fs]

Cmd(op, src, dst, stage) == [op |-> op, src |-> src, dst |-> dst, stage |-> stage]

\* The outcome of one command on the remote host.
Run(fs, c) ==
    CASE c.op = "mv" -> Mv(fs, c.src, c.dst)
      [] c.op = "rm" -> RmRf(fs, c.src)
      [] c.op = "mkdir" -> MkdirP(fs, c.src)
      [] OTHER -> [ok |-> TRUE, fs |-> fs]

(***************************************************************************)
(* Script 1: deployment_on_aws_server.py                                   *)
(***************************************************************************)
\* The files a local build tree may hold (paths relative to LOCAL_BUILD_PATH).
BuildPaths == { << "index.html" >>, << "static", "app.js" >>,
                << "static", "css", "site.css" >> }

BuildTrees ==
    { { [path |-> p, data |-> "new"] : p \in ps } :
        ps \in { x \in SUBSET BuildPaths : Cardinality(x) <= MaxFiles } }

\* States the remote host may be in before a run.
LiveStates ==
    { {}, { Dir(DEPLOY_PATH) },
      { Dir(DEPLOY_PATH), File(Append(DEPLOY_PATH, "index.html"), "old") } }

TempStates ==
    { {}, { Dir(temp_dir), File(Append(temp_dir, "stale.js"), "old") } }

BackupStates ==
    { {}, { Dir(backup_dir), File(Append(backup_dir, "index.html"), "older") } }

\* os.walk is top-down: a directory's files are yielded before the files of
\* the directories below it.
WalkNext(files) ==
    { f \in files : \A g \in files : Len(f.path) <= Len(g.path) }

\* A driver that goes on to the next stage after a stage raised.
OnRaiseContinue(stage) ==
    CASE stage = "connect" -> "transfer_begin"
      [] stage = "transfer" -> "swap1"
      [] stage = "swap" -> "restart1"
      [] stage = "restart" -> "finally"

\* Every stage logs and re-raises; main()'s except clause receives it.
OnRaise(stage) == "main_except"

\* An exception inside switch_to_new_version's try block enters its handler.
OnSwapRaise == "rollback"

\* main() calls the stages in this order.
AfterStage(stage) ==
    CASE stage = "connect" -> "transfer_begin"
      [] stage = "transfer" -> "swap1"
      [] stage = "swap" -> "restart1"
      [] stage = "restart" -> "finally"

\* ssh.exec_command(c): the command is started, nothing waits for it.
exec_command(c) ==
    /\ issued' = Append(issued, c)
    /\ pending' = pending \cup { Len(issued) + 1 }

Raise(stage) ==
    /\ raisedIn' = stage
    /\ pc' = OnRaise(stage)

InitOrchIdle ==
    /\ cwd = {}
    /\ opc = "idle"
    /\ gitlog = << >>
    /\ oresult = "running"

Init ==
    /\ pc = "connect"
    /\ session = "none"
    /\ sshBound = FALSE
    /\ build \in BuildTrees
    /\ todo = {}
    /\ cur = {}
    /\ sent = {}
    /\ \E l \in LiveStates, t \in TempStates, b \in BackupStates :
          remote = l \cup t \cup b
    /\ remote0 = remote
    /\ swapStart = << >>
    /\ issued = << >>
    /\ pending = {}
    /\ failed = {}
    /\ reordered = FALSE
    /\ returned = {}
    /\ raisedIn = "none"
    /\ mainResult = "running"
    /\ InitOrchIdle

\* connect_to_server()
Connect ==
    /\ pc = "connect"
    /\ \/ /\ session' = "open"
          /\ sshBound' = TRUE
          /\ returned' = returned \cup { "connect" }
          /\ pc' = AfterStage("connect")
          /\ UNCHANGED raisedIn
       \/ /\ Raise("connect")
          /\ UNCHANGED << session, sshBound, returned >>
    /\ UNCHANGED << build, todo, cur, sent, remote, remote0, swapStart, issued,
                    pending, failed, reordered, mainResult >>
    /\ UNCHANGED orchVars

\* transfer_files: open_sftp and the mkdir -p of the staging directory.
TransferBegin ==
    /\ pc = "transfer_begin"
    /\ \/ /\ exec_command(Cmd("mkdir", temp_dir, << >>, "transfer"))
          /\ todo' = build
          /\ pc' = "walk"
          /\ UNCHANGED raisedIn
       \/ /\ Raise("transfer")
          /\ UNCHANGED << issued, pending, todo >>
    /\ UNCHANGED << session, sshBound, build, cur, sent, remote, remote0,
                    swapStart, failed, reordered, returned, mainResult >>
    /\ UNCHANGED orchVars

\* transfer_files: the next file of the walk and the mkdir -p of its directory.
TransferMkdir ==
    /\ pc = "walk"
    /\ \E f \in WalkNext(todo) :
          /\ cur' = { f }
          /\ todo' = todo \ { f }
          /\ \/ /\ exec_command(Cmd("mkdir", Dirname(remote_path(f.path)),
                                    << >>, "transfer"))
                /\ pc' = "put"
                /\ UNCHANGED raisedIn
             \/ /\ Raise("transfer")
                /\ UNCHANGED << issued, pending >>
    /\ UNCHANGED << session, sshBound, build, sent, remote, remote0, swapStart,
                    failed, reordered, returned, mainResult >>
    /\ UNCHANGED orchVars

\* transfer_files: sftp.put of the current file.
TransferPut ==
    /\ pc = "put"
    /\ \E f \in cur :
          LET r == Put(remote, remote_path(f.path), f.data) IN
          \/ /\ r.ok
             /\ remote' = r.fs
             /\ sent' = sent \cup { f }
             /\ cur' = {}
             /\ pc' = "walk"
             /\ UNCHANGED raisedIn
          \/ /\ Raise("transfer")
             /\ UNCHANGED << remote, sent, cur >>
    /\ UNCHANGED << session, sshBound, build, todo, remote0, swapStart, issued,
                    pending, failed, reordered, returned, mainResult >>
    /\ UNCHANGED orchVars

\* transfer_files: the walk is over, sftp.close() and return.
TransferClose ==
    /\ pc = "walk"
    /\ todo = {}
    /\ returned' = returned \cup { "transfer" }
    /\ pc' = AfterStage("transfer")
    /\ UNCHANGED << session, sshBound, build, todo, cur, sent, remote, remote0,
                    swapStart, issued, pending, failed, reordered, raisedIn, mainResult >>
    /\ UNCHANGED orchVars

\* The commands of switch_to_new_version: backup, promote, remove the backup,
\* and the handler's rollback.
mvLiveBackup == Cmd("mv", DEPLOY_PATH, backup_dir, "swap")

mvTempLive == Cmd("mv", temp_dir, DEPLOY_PATH, "swap")

rmBackup == Cmd("rm", backup_dir, << >>, "swap")

mvBackupLive == Cmd("mv", backup_dir, DEPLOY_PATH, "rollback")

\* One exec_command of switch_to_new_version's try block.
SwapStep(at, c, next) ==
    /\ pc = at
    /\ \/ /\ exec_command(c)
          /\ pc' = next
       \/ /\ pc' = OnSwapRaise
          /\ UNCHANGED << issued, pending >>
    /\ UNCHANGED << session, sshBound, build, todo, cur, sent, remote, remote0,
                    failed, reordered, raisedIn, mainResult >>
    /\ UNCHANGED orchVars

\* mv DEPLOY_PATH DEPLOY_PATH_backup
Swap1 ==
    /\ SwapStep("swap1", mvLiveBackup, "swap2")
    /\ swapStart' = << remote >>
    /\ UNCHANGED returned

\* mv DEPLOY_PATH_temp DEPLOY_PATH
Swap2 ==
    /\ SwapStep("swap2", mvTempLive, "swap3")
    /\ UNCHANGED << swapStart, returned >>

\* rm -rf DEPLOY_PATH_backup, then return
Swap3 ==
    /\ SwapStep("swap3", rmBackup, AfterStage("swap"))
    /\ returned' = IF pc' = OnSwapRaise THEN returned ELSE returned \cup { "swap" }
    /\ UNCHANGED swapStart

\* The except handler: mv DEPLOY_PATH_backup DEPLOY_PATH, then re-raise. An
\* exception raised by the handler's own exec_command propagates as well.
Rollback ==
    /\ pc = "rollback"
    /\ \/ exec_command(mvBackupLive)
       \/ UNCHANGED << issued, pending >>
    /\ Raise("swap")
    /\ UNCHANGED << session, sshBound, build, todo, cur, sent, remote, remote0,
                    swapStart, failed, reordered, returned, mainResult >>
    /\ UNCHANGED orchVars

RestartStep(at, c, next) ==
    /\ pc = at
    /\ \/ /\ exec_command(c)
          /\ pc' = next
          /\ UNCHANGED raisedIn
       \/ /\ Raise("restart")
          /\ UNCHANGED << issued, pending >>
    /\ UNCHANGED << session, sshBound, build, todo, cur, sent, remote, remote0,
                    swapStart, failed, reordered, mainResult >>
    /\ UNCHANGED orchVars

\* sudo systemctl restart nginx
Restart1 ==
    /\ RestartStep("restart1", Cmd("restart", << "nginx" >>, << >>, "restart"),
                   "restart2")
    /\ UNCHANGED returned

\* sudo systemctl restart gunicorn, then return
Restart2 ==
    /\ RestartStep("restart2", Cmd("restart", << "gunicorn" >>, << >>, "restart"),
                   AfterStage("restart"))
    /\ returned' = IF raisedIn' = "restart" THEN returned
                   ELSE returned \cup { "restart" }

\* main(): except Exception as e: logger.error(...)
MainExcept ==
    /\ pc = "main_except"
    /\ pc' = "finally"
    /\ UNCHANGED << session, sshBound, build, todo, cur, sent, remote, remote0,
                    swapStart, issued, pending, failed, reordered, returned, raisedIn,
                    mainResult >>
    /\ UNCHANGED orchVars

\* main(): finally: if ssh: ssh.close(). Reading ssh before it was assigned
\* raises UnboundLocalError out of the finally block.
MainFinally ==
    /\ pc = "finally"
    /\ pc' = "done"
    /\ IF sshBound
          THEN /\ session' = "closed"
               /\ mainResult' = "returned"
          ELSE /\ mainResult' = "raised"
               /\ UNCHANGED session
    /\ UNCHANGED << sshBound, build, todo, cur, sent, remote, remote0, swapStart,
                    issued, pending, failed, reordered, returned, raisedIn >>
    /\ UNCHANGED orchVars

\* The remote host: a started command takes effect, or ends with an error
\* and no effect. Its exit status is read by nobody.
RemoteExec ==
    /\ \E i \in pending :
          \E works \in BOOLEAN :
             LET r == Run(remote, issued[i]) IN
             /\ remote' = IF works THEN r.fs ELSE remote
             /\ failed' = IF works /\ r.ok THEN failed ELSE failed \cup { i }
             /\ pending' = pending \ { i }
             /\ reordered' = (reordered \/ \E j \in pending : j < i)
    /\ UNCHANGED << pc, session, sshBound, build, todo, cur, sent, remote0,
                    swapStart, issued, returned, raisedIn, mainResult >>
    /\ UNCHANGED orchVars

Next ==
    \/ Connect
    \/ TransferBegin
    \/ TransferMkdir
    \/ TransferPut
    \/ TransferClose
    \/ Swap1
    \/ Swap2
    \/ Swap3
    \/ Rollback
    \/ Restart1
    \/ Restart2
    \/ MainExcept
    \/ MainFinally
    \/ RemoteExec

Spec == Init /\ [][Next]_vars

(***************************************************************************)
(* Script 2: deployment_pipeline_from_using_python_script.py                *)
(* A directory name is the sequence of its characters.                     *)
(***************************************************************************)
frontend == << "f", "r", "o", "n", "t", "e", "n", "d" >>

backend == << "b", "a", "c", "k", "e", "n", "d" >>

main_repo == << "m", "a", "i", "n", "_", "r", "e", "p", "o" >>

jupiter == << "j", "u", "p", "i", "t", "e", "r" >>

\* Entries the current working directory may hold before a run.
CwdEntries ==
    { [name |-> frontend, isDir |-> TRUE],
      [name |-> frontend \o << "-", "v", "2" >>, isDir |-> TRUE],
      [name |-> frontend \o << "-", "o", "l", "d", "-", "b", "a", "c", "k", "u", "p" >>,
       isDir |-> TRUE],
      [name |-> frontend \o << ".", "z", "i", "p" >>, isDir |-> FALSE],
      [name |-> backend, isDir |-> TRUE],
      [name |-> backend \o << "_", "o", "l", "d" >>, isDir |-> TRUE],
      [name |-> main_repo, isDir |-> TRUE],
      [name |-> jupiter, isDir |-> TRUE] }

\* str.startswith
startswith(s, prefix) ==
    Len(prefix) <= Len(s) /\ SubSeq(s, 1, Len(prefix)) = prefix

check_code_already_exists(repo_name) ==
    \E d \in cwd : d.isDir /\ startswith(d.name, repo_name)

\* Whether os.path.join(os.getcwd(), name) is a directory.
HasDir(name) == \E d \in cwd : d.isDir /\ d.name = name

OrchRaise ==
    /\ opc' = "done"
    /\ oresult' = "raised"

\* clone_or_pull_<repo>_repo(): the branch taken is recorded in gitlog with
\* whether the working copy was there when it was taken.
CloneOrPull(repo, branch, next) ==
    /\ IF check_code_already_exists(repo)
          THEN /\ gitlog' = Append(gitlog, [op |-> "pull", repo |-> repo,
                                            branch |-> branch,
                                            present |-> HasDir(repo)])
               /\ UNCHANGED cwd
               \* Repo(repo_dir) raises when the directory is missing; the
               \* checkout and the pull may fail as well.
               /\ \/ /\ HasDir(repo)
                     /\ opc' = next
                     /\ UNCHANGED oresult
                  \/ OrchRaise
          ELSE /\ gitlog' = Append(gitlog, [op |-> "clone", repo |-> repo,
                                            branch |-> branch,
                                            present |-> HasDir(repo)])
               \* Repo.clone_from creates the working copy, or raises.
               /\ \/ /\ cwd' = cwd \cup { [name |-> repo, isDir |-> TRUE] }
                     /\ opc' = next
                     /\ UNCHANGED oresult
                  \/ /\ OrchRaise
                     /\ UNCHANGED cwd
    /\ UNCHANGED deployVars

OrchFrontend ==
    /\ opc = "frontend"
    /\ CloneOrPull(frontend, "main", "build")

\* build_frontend(): npm i --force unless a jupiter* directory exists, then
\* npm run build; run_command raises on a non-zero exit status.
OrchBuild ==
    /\ opc = "build"
    /\ gitlog' = IF check_code_already_exists(jupiter)
                    THEN Append(gitlog, [op |-> "npm_build", repo |-> frontend,
                                         branch |-> "-", present |-> HasDir(frontend)])
                    ELSE Append(gitlog, [op |-> "npm_install", repo |-> frontend,
                                         branch |-> "-", present |-> HasDir(frontend)])
    /\ \/ /\ HasDir(frontend)
          /\ opc' = "backend"
          /\ UNCHANGED oresult
       \/ OrchRaise
    /\ UNCHANGED cwd
    /\ UNCHANGED deployVars

OrchBackend ==
    /\ opc = "backend"
    /\ CloneOrPull(backend, "master", "main_repo")

OrchMainRepo ==
    /\ opc = "main_repo"
    /\ CloneOrPull(main_repo, "master", "update")

\* update_static_and_files(): copytree raises when a source is missing.
OrchUpdate ==
    /\ opc = "update"
    /\ \/ /\ HasDir(jupiter) /\ HasDir(backend) /\ HasDir(main_repo)
          /\ opc' = "commit"
          /\ UNCHANGED oresult
       \/ OrchRaise
    /\ UNCHANGED << cwd, gitlog >>
    /\ UNCHANGED deployVars

\* commit_and_push_changes(), then main() returns; any exception is logged
\* and re-raised by main().
OrchCommit ==
    /\ opc = "commit"
    /\ \/ /\ HasDir(main_repo)
          /\ opc' = "done"
          /\ oresult' = "returned"
       \/ OrchRaise
    /\ UNCHANGED << cwd, gitlog >>
    /\ UNCHANGED deployVars

InitDeployIdle ==
    /\ pc = "idle"
    /\ session = "none"
    /\ sshBound = FALSE
    /\ build = {}
    /\ todo = {}
    /\ cur = {}
    /\ sent = {}
    /\ remote = {}
    /\ remote0 = {}
    /\ swapStart = << >>
    /\ issued = << >>
    /\ pending = {}
    /\ failed = {}
    /\ reordered = FALSE
    /\ returned = {}
    /\ raisedIn = "none"
    /\ mainResult = "running"

InitOrch ==
    /\ cwd \in SUBSET CwdEntries
    /\ opc = "frontend"
    /\ gitlog = << >>
    /\ oresult = "running"
    /\ InitDeployIdle

NextOrch ==
    \/ OrchFrontend
    \/ OrchBuild
    \/ OrchBackend
    \/ OrchMainRepo
    \/ OrchUpdate
    \/ OrchCommit

SpecOrch == InitOrch /\ [][NextOrch]_vars

(***************************************************************************)
(* Vocabulary of the properties                                            *)
(***************************************************************************)
\* main() has ended and every started command has ended.
Quiescent == pc = "done" /\ pending = {}

SwapEntered == Len(swapStart) = 1

\* The remote filesystem as switch_to_new_version found it.
SwapFs == swapStart[1]

Issued(c) == \E i \in 1..Len(issued) : issued[i] = c

Succeeded(c) ==
    \E i \in 1..Len(issued) : issued[i] = c /\ i \notin pending /\ i \notin failed

Failed(c) == \E i \in 1..Len(issued) : issued[i] = c /\ i \in failed

StageRank(stage) ==
    CASE stage = "transfer" -> 1
      [] stage = "swap" -> 2
      [] stage = "rollback" -> 2
      [] stage = "restart" -> 3

\* The stages that must have returned before a stage's commands are issued.
EarlierStages(stage) ==
    CASE stage = "transfer" -> { "connect" }
      [] stage = "swap" -> { "connect", "transfer" }
      [] stage = "rollback" -> { "connect", "transfer" }
      [] stage = "restart" -> { "connect", "transfer", "swap" }

(***************************************************************************)
(* C1. Swap success: from live = L, staging = S and no backup, once        *)
(* switch_to_new_version has returned without raising (and main() has      *)
(* ended, every command has ended, each with exit status 0), DEPLOY_PATH   *)
(* holds exactly S and neither the backup nor the staging directory is     *)
(* left. Stated for a staging directory that holds at least one file.      *)
(***************************************************************************)
C1_SwapSuccess ==
    ( /\ Quiescent
      /\ "swap" \in returned
      /\ failed = {}
      /\ IsDir(SwapFs, DEPLOY_PATH)
      /\ FilesUnder(SwapFs, temp_dir) # {}
      /\ ~Exists(SwapFs, backup_dir) )
    => /\ IsDir(remote, DEPLOY_PATH)
       /\ Contents(remote, DEPLOY_PATH) = Contents(SwapFs, temp_dir)
       /\ ~Exists(remote, backup_dir)
       /\ ~Exists(remote, temp_dir)

(***************************************************************************)
(* C2. Rollback round trip: from live = L and staging = S, when the rename *)
(* live -> backup succeeded and the rename staging -> live ended with an   *)
(* error, then at the end DEPLOY_PATH holds exactly L again. Stated for a  *)
(* live directory that holds at least one file and for the runs in which   *)
(* every exec_command of the swap returned and the commands ended in the   *)
(* order they were issued.                                                 *)
(***************************************************************************)
C2_RollbackRoundTrip ==
    ( /\ Quiescent
      /\ SwapEntered
      /\ "swap" \in returned
      /\ ~reordered
      /\ FilesUnder(SwapFs, DEPLOY_PATH) # {}
      /\ IsDir(SwapFs, temp_dir)
      /\ ~Exists(SwapFs, backup_dir)
      /\ Succeeded(mvLiveBackup)
      /\ Failed(mvTempLive) )
    => /\ IsDir(remote, DEPLOY_PATH)
       /\ Contents(remote, DEPLOY_PATH) = Contents(SwapFs, DEPLOY_PATH)

(***************************************************************************)
(* C3. Transfer mirrors the build tree: when transfer_files has returned   *)
(* without raising, the files below DEPLOY_PATH_temp are exactly the local *)
(* files, at the same relative paths with the same content, whatever the   *)
(* remote host held before. Stated for a build tree that holds a file.     *)
(***************************************************************************)
C3_TransferMirrors ==
    (pc = "swap1" /\ build # {}) => FilesUnder(remote, temp_dir) = build

(***************************************************************************)
(* C4. Session lifetime: when main() ends, no session is left open and the *)
(* finally block has completed without raising.                            *)
(***************************************************************************)
C4_SessionClosed ==
    pc = "done" => session # "open" /\ mainResult = "returned"

(***************************************************************************)
(* C5. No exception escapes main(): a run in which some stage raised ends  *)
(* with main() returning normally.                                         *)
(***************************************************************************)
C5_MainSwallows ==
    (pc = "done" /\ raisedIn # "none") => mainResult # "raised"

(***************************************************************************)
(* C6. Stage order and abort: commands are issued in the order transfer,   *)
(* swap, restart, each only after every earlier stage has returned without *)
(* raising. When transfer_files raised, no swap or restart command is ever *)
(* issued, DEPLOY_PATH is as it was before the run, and every file already *)
(* put is still in DEPLOY_PATH_temp.                                       *)
(***************************************************************************)
C6_StageOrderAndAbort ==
    /\ \A i \in 1..Len(issued) : EarlierStages(issued[i].stage) \subseteq returned
    /\ \A i, j \in 1..Len(issued) :
          i < j => StageRank(issued[i].stage) <= StageRank(issued[j].stage)
    /\ raisedIn = "transfer" =>
          /\ \A i \in 1..Len(issued) : issued[i].stage = "transfer"
          /\ Under(remote, DEPLOY_PATH) = Under(remote0, DEPLOY_PATH)
          /\ \A f \in sent : File(remote_path(f.path), f.data) \in remote

\* transfer_files raised after it had put one file of two, over an existing
\* live directory, and the run is over.
C6_Witness ==
    /\ Quiescent
    /\ raisedIn = "transfer"
    /\ Cardinality(sent) = 1
    /\ Cardinality(build) = 2
    /\ IsFile(remote0, Append(DEPLOY_PATH, "index.html"))

(***************************************************************************)
(* C7. Single current deployment: after a run that reached the swap stage, *)
(* at most one of DEPLOY_PATH and DEPLOY_PATH_backup exists. Stated for    *)
(* the runs that found a live directory holding a file and no backup, and  *)
(* in which the commands ended in the order they were issued.              *)
(***************************************************************************)
C7_SingleDeployment ==
    ( /\ Quiescent
      /\ SwapEntered
      /\ ~reordered
      /\ FilesUnder(SwapFs, DEPLOY_PATH) # {}
      /\ ~Exists(SwapFs, backup_dir) )
    => ~(Exists(remote, DEPLOY_PATH) /\ Exists(remote, backup_dir))

(***************************************************************************)
(* C8. First deploy: when DEPLOY_PATH does not exist as the swap stage     *)
(* begins, the rollback command mv DEPLOY_PATH_backup DEPLOY_PATH is never *)
(* issued.                                                                 *)
(***************************************************************************)
C8_NoRollbackOnFirstDeploy ==
    (SwapEntered /\ ~Exists(SwapFs, DEPLOY_PATH)) => ~Issued(mvBackupLive)

(***************************************************************************)
(* C9. Clone-or-pull decision: each of the three steps takes the           *)
(* checkout-and-pull path exactly when a directory named exactly as the    *)
(* working copy exists, and clones otherwise.                              *)
(***************************************************************************)
C9_PullIffWorkingCopy ==
    \A i \in 1..Len(gitlog) :
        gitlog[i].op \in { "pull", "clone" }
            => (gitlog[i].op = "pull" <=> gitlog[i].present)

(***************************************************************************)
(* C10. The swap's commands take effect in issue order: no command of the  *)
(* swap takes effect while a command of the swap issued before it is still *)
(* pending.                                                                *)
(***************************************************************************)
C10_SwapInIssueOrder ==
    [][ \A i \in pending \ pending' :
            (issued[i].stage = "swap" /\ i \notin failed')
                => \A j \in pending : j < i => issued[j].stage # "swap" ]_vars

====
